---- MODULE Spec2Model ----
(***************************************************************************)
(* Ticket lifecycle of the bot's two ticket cogs (cogs/ticket_tool.py and  *)
(* cogs/support_ticket.py): number allocation, channel provisioning, the   *)
(* close / confirm / cancel prompt, transcript rendering and archival.     *)
(* Handlers are asyncio coroutines: one action per stretch of code between *)
(* two suspension points (await), so every interleaving the event loop can *)
(* produce is a behaviour of Spec.                                         *)
(***************************************************************************)
EXTENDS Integers, Sequences, FiniteSets

\* ------------------------------------------------------------------ bounds
MaxCreates == 2      \* ticket-creation requests (presses of a create button)
MaxEvents == 3       \* further events while there is one request: presses of
                     \* Close Ticket, Confirm and Cancel, role changes, calls that raise
MaxEventsMany == 1   \* further events, in all, once there are several requests
MaxBackups == 1      \* uses of the /backup command
MaxCloseEvents == 4  \* events on the close path of two tickets that are open
MaxRenders == 2      \* transcripts rendered of one channel
MaxSeconds == 2      \* seconds on the clock while they are rendered
MaxMessages == 2     \* messages in the rendered channel
MaxStarts == 2       \* uses of the /record command
MaxStops == 2        \* uses of the /stoprecord command
MaxRequests == 2     \* name-change requests submitted
MaxReviews == 2      \* presses of Approve and Reject

\* ------------------------------------------------------- guild population
Users == {1, 2, 3, 4}
\* The members who press buttons; members 3 and 4 only hold roles.
Actors == {1, 2}
\* The members /add is used for: one without access, and the creator of the
\* first ticket.
AddedMembers == {1, 3}
RoleIds == {1, 2, 3, 4}
STAFF_ROLE_ID == 3

GANG_ROLE_PREFIX == <<"G", "a", "n", "g", "-">>

\* Role names, as the sequences of characters str.startswith reads.
role_name(r) ==
  CASE r = 1 -> <<"G", "a", "n", "g", "-", "A">>
    [] r = 2 -> <<"G", "a", "n", "g", "-", "B">>
    [] r = 3 -> <<"S", "t", "a", "f", "f">>
    [] r = 4 -> <<"g", "a", "n", "g", "-", "c">>

startswith(s, p) == Len(s) >= Len(p) /\ SubSeq(s, 1, Len(p)) = p

Kinds == {"normal", "gang", "support"}

\* Fault injection: every kind draws from one counter.
scope_of_unified(kind) == "ticket"

\* The counter a kind draws from: Normal and Gang tickets share ticket_tool's
\* counter, Support tickets use support_ticket's.
Scopes == {"ticket", "support"}
scope_of(kind) == IF kind = "support" THEN "support" ELSE "ticket"

VARIABLES
  mongo,        \* mongo_db is not None (MONGO_URI set and motor installed)
  category,     \* the configured category exists and is a CategoryChannel
  logChannel,   \* guild.get_channel(LOG_CHANNEL_ID) is not None
  staffRole,    \* guild.get_role(STAFF_ROLE_ID) is not None
  roles,        \* roles[u]: the role ids member u holds
  nEvents,      \* events so far, the creation requests aside
  seqDoc,       \* seqDoc[s]: "seq" of scope s's counter document (0: no document)
  counterFile,  \* counterFile[s]: the integer in scope s's counter file (0: no file)
  channels,     \* the ticket channels ever created, by channel id; msgs counts
                \* the messages, posted is the number of the last one a member sent
  creates,      \* ticket-creation interactions and their handlers
  closes,       \* Close Ticket interactions, with the prompt each opened
  confirms,     \* Confirm interactions and their handlers
  files,        \* transcript files on disk: path -> content
  archive,      \* the transcript collections: inserted documents, in order
  backups,      \* the replies of the /backup command, in order
  adds,         \* the uses of the /add command and their handlers
  room,         \* the channel a transcript is rendered of: name, guild, messages
  rendered,     \* the paths the transcript generators returned, in order
  active_sessions, \* RecordManager.active_sessions: guild -> session, or NoSession
  starts,       \* /record interactions and their handlers
  stops,        \* /stoprecord interactions and their handlers
  requests,     \* the name-change request messages in the approval channel
  reviews,      \* Approve and Reject interactions and their handlers
  nicks         \* nicks[u]: the nickname of member u, and how often it was set

vars == <<mongo, category, logChannel, staffRole, roles, nEvents, seqDoc,
          counterFile, channels, creates, closes, confirms, files, archive,
          backups, adds, room, rendered, active_sessions, starts, stops,
          requests, reviews, nicks>>

guildVars == <<mongo, category, logChannel, staffRole>>

renderVars == <<room, rendered>>

recordVars == <<active_sessions, starts, stops>>

nameVars == <<requests, reviews, nicks>>

\* What the handlers of the ticket panels and views never touch.
sideVars == <<renderVars, recordVars, nameVars, adds>>

\* The state of the two ticket cogs.
ticketVars == <<guildVars, renderVars, adds, backups, roles, nEvents, seqDoc, counterFile,
                channels, creates, closes, confirms, files, archive>>

\* k events happen in this step, within the bound on events.
events(k) ==
  /\ nEvents + k <= (IF Len(creates) <= 1 THEN MaxEvents ELSE MaxEventsMany)
  /\ nEvents' = nEvents + k

\* One more creation request fits the bounds.
may_request ==
  /\ Len(creates) < MaxCreates
  /\ Len(creates) >= 1 => nEvents <= MaxEventsMany

\* An awaited call returns; or it raises although its target exists (the
\* platform or the store failed), which is an event.
returns == events(0)
raises == events(1)


\* str(n) for a positive integer: its decimal digits.
RECURSIVE str(_)
str(n) == IF n < 10 THEN <<n>> ELSE str(n \div 10) \o <<n % 10>>

\* ------------------------------------------------------------- role lookup
\* member.roles in the platform's enumeration order (ascending role position).
RECURSIVE sorted_roles(_)
sorted_roles(S) ==
  IF S = {} THEN <<>>
  ELSE LET m == CHOOSE x \in S : \A y \in S : x <= y
       IN <<m>> \o sorted_roles(S \ {m})

RECURSIVE filter_gang(_)
filter_gang(rs) ==
  IF rs = <<>> THEN <<>>
  ELSE (IF startswith(role_name(Head(rs)), GANG_ROLE_PREFIX) THEN <<Head(rs)>> ELSE <<>>)
       \o filter_gang(Tail(rs))

\* [r for r in interaction.user.roles if r.name.startswith(GANG_ROLE_PREFIX)]
user_roles(u) == filter_gang(sorted_roles(roles[u]))

\* gang_role.members
members(r) == {m \in Users : r \in roles[m]}

\* staff_role in interaction.user.roles, with staff_role None when the role is gone
is_staff(u) == staffRole /\ STAFF_ROLE_ID \in roles[u]

\* ------------------------------------------------------ sequence allocator
\* Fault injection: an increment by two.
find_one_and_update_by_two(seq) == seq + 2

\* find_one_and_update({"$inc": {"seq": 1}}, upsert=True, return_document=True):
\* the document's seq after the increment (a missing document counts from 0).
find_one_and_update(seq) == seq + 1

\* The counter-file branch: count = int(f.read()) or 0, count += 1, written back.
\* It holds no await, so the event loop runs it as one step.
local_increment(count) == count + 1


\* Fault injection: an allocator that is a read followed by a separate write
\* that is lost, so the stores keep the old value.
get_next_ticket_number_lost_update(s) ==
  [num |-> (IF mongo THEN seqDoc[s] ELSE counterFile[s]) + 1,
   seqDoc |-> seqDoc, counterFile |-> counterFile]

\* get_next_ticket_number / get_next_support_ticket_number for scope s:
\* the number returned, and the stores after the call.
get_next_ticket_number(s) ==
  IF mongo
  THEN [num |-> find_one_and_update(seqDoc[s]),
        seqDoc |-> [seqDoc EXCEPT ![s] = find_one_and_update(seqDoc[s])],
        counterFile |-> counterFile]
  ELSE [num |-> local_increment(counterFile[s]),
        seqDoc |-> seqDoc,
        counterFile |-> [counterFile EXCEPT ![s] = local_increment(counterFile[s])]]

\* ------------------------------------------------------------ provisioning
prefix_of(kind) ==
  CASE kind = "normal" -> "ticket"
    [] kind = "gang" -> "gang-ticket"
    [] kind = "support" -> "support"

\* Fault injection: a channel name that leaves the number out.
channel_name_unnumbered(kind, n) == <<prefix_of(kind), 0>>

\* channel_name = f"{prefix}-{ticket_number}"
channel_name(kind, n) == <<prefix_of(kind), n>>

\* Fault injection: the grants go to the members of the requester's last
\* gang role.
gang_overwrites_last_role(u) ==
  IF user_roles(u) # <<>>
  THEN {<<"member", m>> : m \in members(user_roles(u)[Len(user_roles(u))])}
  ELSE {}

\* The gang branch of on_submit: the members of the first gang role the
\* requester holds at this moment, none when the requester holds no gang role.
gang_overwrites(u) ==
  IF user_roles(u) # <<>>
  THEN {<<"member", m>> : m \in members(user_roles(u)[1])}
  ELSE {}

\* Who is granted read_messages + send_messages at creation: the requester,
\* guild.me, the staff role when the guild has it, and for a gang ticket the
\* members of the requester's first gang role.
granted(kind, u) ==
  {<<"member", u>>, <<"me">>}
    \cup (IF staffRole THEN {<<"role", STAFF_ROLE_ID>>} ELSE {})
    \cup (IF kind = "gang" THEN gang_overwrites(u) ELSE {})

\* Fault injection: a permission map that lets guild.default_role read and write.
overwrites_for_everyone(kind, u) ==
  [t \in granted(kind, u) \cup {<<"default_role">>} |-> "read_send"]

\* The permission map handed to create_text_channel: guild.default_role is
\* denied read_messages, the others are granted read and send.
overwrites_for(kind, u) ==
  [t \in granted(kind, u) \cup {<<"default_role">>} |->
     IF t = <<"default_role">> THEN "deny_read" ELSE "read_send"]

NoChannel == 0

NewRequest(kind, u, pc, replies) ==
  [kind |-> kind, user |-> u, pc |-> pc, num |-> 0, allocFailed |-> FALSE,
   name |-> <<>>, overwrites |-> <<>>, chan |-> NoChannel, replies |-> replies]

\* TicketButton.create_normal_ticket: anyone gets the form.
create_normal_ticket(u) ==
  /\ may_request
  /\ events(0)
  /\ creates' = Append(creates, NewRequest("normal", u, "modal", <<>>))
  /\ UNCHANGED <<guildVars, sideVars, backups, roles, seqDoc, counterFile, channels,
                 closes, confirms, files, archive>>

\* TicketButton.create_gang_ticket: the form only for holders of a gang role.
create_gang_ticket(u) ==
  /\ may_request
  /\ events(0)
  /\ IF user_roles(u) = <<>>
     THEN creates' = Append(creates, NewRequest("gang", u, "done", <<"need_gang_role">>))
     ELSE creates' = Append(creates, NewRequest("gang", u, "modal", <<>>))
  /\ UNCHANGED <<guildVars, sideVars, backups, roles, seqDoc, counterFile, channels,
                 closes, confirms, files, archive>>

\* From the number to the create_text_channel call: the name and the permission
\* map are computed without suspension once the number is known.
with_number(req, n, failed) ==
  [req EXCEPT !.num = n, !.allocFailed = failed,
              !.name = channel_name(req.kind, n),
              !.overwrites = overwrites_for(req.kind, req.user),
              !.pc = "create"]

\* except Exception: ticket_number = 1
fallback_number == 1

\* The request at position i of creates, a new one when i is past its end.
put(i, req) ==
  IF i = Len(creates) + 1 THEN Append(creates, req) ELSE [creates EXCEPT ![i] = req]

\* Fault injection: a handler that allocates its number before it looks for
\* the category.
enter_allocating_first(i, req) ==
  /\ LET a == get_next_ticket_number(scope_of(req.kind))
     IN /\ seqDoc' = a.seqDoc
        /\ counterFile' = a.counterFile
        /\ creates' = put(i, IF category
                             THEN with_number(req, a.num, FALSE)
                             ELSE [req EXCEPT !.pc = "done",
                                              !.replies = Append(@, "no_category")])
  /\ returns

\* The handler from its entry to its first await after defer. defer touches
\* nothing the handlers share, so the step runs on through it: the category
\* check, then the allocation. On the counter-file branch the allocation
\* completes in this same step (it holds no await); with MongoDB the handler
\* suspends on find_one_and_update.
enter(i, req) ==
  \/ /\ ~category
     /\ creates' = put(i, [req EXCEPT !.pc = "done",
                                      !.replies = Append(@, "no_category")])
     /\ returns
     /\ UNCHANGED <<seqDoc, counterFile>>
  \/ /\ category /\ mongo
     /\ creates' = put(i, [req EXCEPT !.pc = "alloc"])
     /\ returns
     /\ UNCHANGED <<seqDoc, counterFile>>
  \/ /\ category /\ ~mongo
     /\ LET a == get_next_ticket_number(scope_of(req.kind))
        IN /\ counterFile' = a.counterFile
           /\ creates' = put(i, with_number(req, a.num, FALSE))
     /\ returns
     /\ UNCHANGED seqDoc
  \/ /\ category /\ ~mongo      \* the counter file cannot be read
     /\ creates' = put(i, with_number(req, fallback_number, TRUE))
     /\ raises
     /\ UNCHANGED <<seqDoc, counterFile>>
  \/ /\ creates' = put(i, [req EXCEPT !.pc = "failed"])   \* defer raised
     /\ raises
     /\ UNCHANGED <<seqDoc, counterFile>>

\* SupportButton.create_support_ticket, up to its first await after defer.
create_support_ticket(u) ==
  /\ may_request
  /\ enter(Len(creates) + 1, NewRequest("support", u, "defer", <<>>))
  /\ UNCHANGED <<guildVars, sideVars, backups, roles, channels, closes, confirms, files, archive>>

\* TicketForm.on_submit, up to its first await after defer.
on_submit(i) ==
  /\ creates[i].pc = "modal"
  /\ enter(i, creates[i])
  /\ UNCHANGED <<guildVars, sideVars, backups, roles, channels, closes, confirms, files, archive>>

\* find_one_and_update returns, or raises (store unreachable).
alloc_return(i) ==
  /\ creates[i].pc = "alloc"
  /\ \/ /\ LET a == get_next_ticket_number(scope_of(creates[i].kind))
           IN /\ seqDoc' = a.seqDoc
              /\ creates' = [creates EXCEPT ![i] = with_number(@, a.num, FALSE)]
        /\ returns
     \/ /\ creates' = [creates EXCEPT ![i] = with_number(@, fallback_number, TRUE)]
        /\ raises
        /\ UNCHANGED seqDoc
  /\ UNCHANGED <<guildVars, sideVars, backups, roles, counterFile, channels, closes,
                 confirms, files, archive>>


\* ------------------------------------------------- channel creation steps
\* What follows the message carrying the close button: the staff mention when
\* the staff role exists, the log entry when the log channel exists, the reply.
after_view == IF staffRole THEN "mention" ELSE "finish"

\* except Exception: followup.send("Something went wrong ..."), the handler ends.
creation_failed(req) == [req EXCEPT !.pc = "done", !.replies = Append(@, "failed")]

\* Fault injection: a failed create_text_channel gives the number back.
create_return_rolling_back(i) ==
  /\ creates[i].pc = "create"
  /\ creates' = [creates EXCEPT ![i] = creation_failed(@)]
  /\ raises
  /\ LET s == scope_of(creates[i].kind) IN
       IF creates[i].allocFailed
       THEN UNCHANGED <<seqDoc, counterFile>>
       ELSE IF mongo
            THEN seqDoc' = [seqDoc EXCEPT ![s] = @ - 1] /\ UNCHANGED counterFile
            ELSE counterFile' = [counterFile EXCEPT ![s] = @ - 1] /\ UNCHANGED seqDoc
  /\ UNCHANGED <<guildVars, sideVars, backups, roles, channels, closes, confirms, files, archive>>

\* guild.create_text_channel returns the new channel, topic = str(user.id), or raises.
create_return(i) ==
  /\ creates[i].pc = "create"
  /\ \/ /\ channels' = Append(channels,
              [name |-> creates[i].name, topic |-> str(creates[i].user),
               kind |-> creates[i].kind, overwrites |-> creates[i].overwrites,
               exists |-> TRUE, closeView |-> FALSE, msgs |-> 0, posted |-> 0,
               stamp |-> 0])
        /\ creates' = [creates EXCEPT
              ![i].chan = Len(channels) + 1,
              ![i].pc = IF creates[i].kind = "support" THEN "send_header" ELSE "send_view"]
        /\ returns
     \/ /\ creates' = [creates EXCEPT ![i] = creation_failed(@)]
        /\ raises
        /\ UNCHANGED channels
  /\ UNCHANGED <<guildVars, sideVars, backups, roles, seqDoc, counterFile, closes, confirms,
                 files, archive>>

\* A channel.send of the creation handler returns: the message is posted, or
\* the call raises (always when the channel is gone). next is the pc after it.
channel_send_return(i, at, next, view) ==
  /\ creates[i].pc = at
  /\ LET c == creates[i].chan IN
     \/ /\ channels[c].exists
        /\ channels' = [channels EXCEPT ![c].msgs = @ + 1,
                                        ![c].closeView = @ \/ view]
        /\ creates' = [creates EXCEPT ![i].pc = next]
        /\ returns
     \/ /\ IF channels[c].exists THEN raises ELSE returns
        /\ creates' = [creates EXCEPT ![i] = creation_failed(@)]
        /\ UNCHANGED channels
  /\ UNCHANGED <<guildVars, sideVars, backups, roles, seqDoc, counterFile, closes, confirms,
                 files, archive>>

\* create_support_ticket: await channel.send(embed=header_embed)
send_header_return(i) == channel_send_return(i, "send_header", "send_view", FALSE)

\* await channel.send(embed=embed, view=view): the close button is now live.
send_view_return(i) == channel_send_return(i, "send_view", after_view, TRUE)

\* await channel.send(f"{staff_role.mention} ...")
mention_return(i) == channel_send_return(i, "mention", "finish", FALSE)

\* Fault injection: a success followup that is delivered and raises all the
\* same, so that the except clause answers a second time.
finish_return_replying_twice(i) ==
  /\ creates[i].pc = "finish"
  /\ creates' = [creates EXCEPT
        ![i] = creation_failed([@ EXCEPT !.replies = Append(@, "created")])]
  /\ raises
  /\ UNCHANGED <<guildVars, sideVars, backups, roles, seqDoc, counterFile, channels, closes,
                 confirms, files, archive>>

\* The rest of the handler: await log_channel.send(embed=log_embed) when the
\* log channel exists, then await interaction.followup.send("... created").
\* Neither touches what the handlers share; either may raise.
finish_return(i) ==
  /\ creates[i].pc = "finish"
  /\ \/ /\ creates' = [creates EXCEPT ![i].pc = "done", ![i].replies = Append(@, "created")]
        /\ returns
     \/ /\ creates' = [creates EXCEPT ![i] = creation_failed(@)]
        /\ raises
  /\ UNCHANGED <<guildVars, sideVars, backups, roles, seqDoc, counterFile, channels, closes,
                 confirms, files, archive>>

\* ------------------------------------------------------------ close prompt

\* Fault injection: a rejection test that knows the creator only.
close_denied_unless_creator(u, c) == str(u) # channels[c].topic

\* The rejection test of CloseTicketView.close_ticket / CloseSupportView.close_ticket:
\* str(user.id) != creator_id and (not staff_role or staff_role not in user.roles)
close_denied(u, c) ==
  str(u) # channels[c].topic /\ (~staffRole \/ STAFF_ROLE_ID \notin roles[u])


\* Fault injection: a close_ticket whose rejection still carries a live view.
close_ticket_always_prompting(u, c) ==
  /\ events(1)
  /\ channels[c].exists /\ channels[c].closeView
  /\ closes' = Append(closes,
        [chan |-> c, actor |-> u,
         reply |-> IF close_denied(u, c) THEN "no_permission" ELSE "confirm_prompt",
         view |-> "active", cancelled |-> FALSE])
  /\ UNCHANGED <<guildVars, sideVars, backups, roles, seqDoc, counterFile, channels, creates,
                 confirms, files, archive>>

\* Close Ticket pressed by u in channel c: a rejection, or an ephemeral prompt
\* carrying a ConfirmCloseView / ConfirmSupportClose (timeout=30).
close_ticket(u, c) ==
  /\ events(1)
  /\ channels[c].exists /\ channels[c].closeView
  /\ closes' = Append(closes,
        IF close_denied(u, c)
        THEN [chan |-> c, actor |-> u, reply |-> "no_permission",
              view |-> "none", cancelled |-> FALSE]
        ELSE [chan |-> c, actor |-> u, reply |-> "confirm_prompt",
              view |-> "active", cancelled |-> FALSE])
  /\ UNCHANGED <<guildVars, sideVars, backups, roles, seqDoc, counterFile, channels, creates,
                 confirms, files, archive>>

\* The prompt's view times out: it is dropped from the view store and no longer
\* dispatches its buttons. Nothing else is done on timeout.
view_timeout(p) ==
  /\ closes[p].view = "active"
  /\ events(0)
  /\ closes' = [closes EXCEPT ![p].view = "finished"]
  /\ UNCHANGED <<guildVars, sideVars, backups, roles, seqDoc, counterFile, channels, creates,
                 confirms, files, archive>>

\* Fault injection: a Cancel that removes the ticket channel.
cancel_deleting_channel(p) ==
  /\ closes[p].view = "active"
  /\ ~closes[p].cancelled
  /\ events(1)
  /\ closes' = [closes EXCEPT ![p].cancelled = TRUE]
  /\ channels' = [channels EXCEPT ![closes[p].chan].exists = FALSE]
  /\ UNCHANGED <<guildVars, sideVars, backups, roles, seqDoc, counterFile, creates,
                 confirms, files, archive>>

\* ConfirmCloseView.cancel / ConfirmSupportClose.cancel: replies "Close cancelled."
cancel(p) ==
  /\ closes[p].view = "active"
  /\ ~closes[p].cancelled
  /\ events(1)
  /\ closes' = [closes EXCEPT ![p].cancelled = TRUE]
  /\ UNCHANGED <<guildVars, sideVars, backups, roles, seqDoc, counterFile, channels, creates,
                 confirms, files, archive>>


\* Fault injection: a confirmation prompt posted for everyone in the channel.
pressers_of_public_prompt(p) == Actors

\* The confirmation prompt is sent with ephemeral=True: it is shown to the
\* actor of the close request only, so only that actor can press its buttons.
pressers(p) == {closes[p].actor}

\* Fault injection: a Confirm button that is still dispatched after the
\* view's timeout.
confirm_after_timeout(p) ==
  /\ closes[p].view # "none"
  /\ confirms' = Append(confirms,
        [prompt |-> p, chan |-> closes[p].chan, closed_by |-> closes[p].actor,
         pc |-> "history", path |-> <<>>, html |-> <<>>, archived |-> "pending",
         err |-> "none"])
  /\ events(1)
  /\ UNCHANGED <<guildVars, sideVars, backups, roles, seqDoc, counterFile, channels, creates,
                 closes, files, archive>>

\* ConfirmCloseView.confirm / ConfirmSupportClose.confirm, up to its first await
\* after defer: create_transcript has started and waits for channel.history.
\* closed_by is interaction.user, the presser; the handler tests nothing.
confirm(p) ==
  /\ closes[p].view = "active"
  /\ \E u \in pressers(p) :
       LET h == [prompt |-> p, chan |-> closes[p].chan, closed_by |-> u,
                 pc |-> "history", path |-> <<>>, html |-> <<>>, archived |-> "pending",
                 err |-> "none"]
       IN \/ confirms' = Append(confirms, h) /\ events(1)
          \/ confirms' = Append(confirms, [h EXCEPT !.pc = "failed", !.err = "defer"]) /\ events(2)
  /\ UNCHANGED <<guildVars, sideVars, backups, roles, seqDoc, counterFile, channels, creates,
                 closes, files, archive>>

\* ------------------------------------------------------------- transcripts
\* create_transcript / create_support_transcript in the handlers: the document
\* rendered from the channel's name and its history at the time of the fetch,
\* reduced to the name and the number of messages. The text of a document is
\* modelled under "transcript documents" below.
render(c) == <<channels[c].name, channels[c].msgs>>

write_file(fs, path, content) ==
  [q \in (DOMAIN fs) \cup {path} |-> IF q = path THEN content ELSE fs[q]]

\* os.remove(path)
remove_file(fs, path) == [q \in (DOMAIN fs) \ {path} |-> fs[q]]

collection_of(kind) == IF kind = "support" THEN "support" ELSE "transcripts"

\* The document save_transcript_to_mongo / save_support_transcript_to_mongo inserts.
transcript_doc(c, html, closed_by) ==
  [coll |-> collection_of(channels[c].kind), channel_id |-> c,
   channel_name |-> channels[c].name, closed_by_name |-> closed_by,
   transcript_html |-> html]


\* Fault injection: no except clause around the archival, so its exception
\* leaves the handler.
archival_failed_uncaught(h) == [h EXCEPT !.archived = "error", !.pc = "failed"]

\* except Exception: traceback.print_exc(); then the close notice is sent.
archival_failed(h) == [h EXCEPT !.archived = "error", !.pc = "notice"]


\* Fault injection: the handler goes to channel.delete() without waiting for
\* the save.
read_back_not_awaited(h, fs) == [h EXCEPT !.pc = "delete"]

\* From reading the transcript file back to the next await: the file is read,
\* then save_transcript_to_mongo either returns at once (no MongoDB), after
\* which the file is removed and the notice sent, or suspends on insert_one.
read_back(h, fs) ==
  IF h.path \notin DOMAIN fs
  THEN archival_failed(h)                       \* open(): FileNotFoundError
  ELSE IF mongo
       THEN [h EXCEPT !.html = fs[h.path], !.pc = "insert"]
       ELSE [h EXCEPT !.html = fs[h.path], !.archived = "skipped", !.pc = "notice"]

files_after_read_back(h, fs) ==
  IF h.path \in DOMAIN fs /\ ~mongo THEN remove_file(fs, h.path) ELSE fs

\* Fault injection: a channel.history that answers for a deleted channel
\* from the message cache.
history_return_from_cache(h) ==
  /\ confirms[h].pc = "history"
  /\ returns
  /\ LET c == confirms[h].chan
         path == <<c, channels[c].stamp + 1>>
         written == write_file(files, path, render(c))
         hw == [confirms[h] EXCEPT !.path = path]
     IN /\ channels' = [channels EXCEPT ![c].stamp = @ + 1]
        /\ IF logChannel
           THEN /\ confirms' = [confirms EXCEPT ![h] = [hw EXCEPT !.pc = "log_send"]]
                /\ files' = written
           ELSE /\ confirms' = [confirms EXCEPT ![h] = read_back(hw, written)]
                /\ files' = files_after_read_back(hw, written)
  /\ UNCHANGED <<guildVars, sideVars, backups, roles, seqDoc, counterFile, creates, closes, archive>>

\* channel.history returns: the transcript is rendered and written to
\* transcript_{channel.id}_{second}.html, a name two confirmations of one
\* channel share when they render within the same second.
history_return(h) ==
  /\ confirms[h].pc = "history"
  /\ LET c == confirms[h].chan IN
     \/ /\ channels[c].exists
        /\ returns
        /\ \E second \in {channels[c].stamp, channels[c].stamp + 1} :
             /\ second > 0
             /\ LET path == <<c, second>>
                    written == write_file(files, path, render(c))
                    hw == [confirms[h] EXCEPT !.path = path]
                IN /\ channels' = [channels EXCEPT ![c].stamp = second]
                   /\ IF logChannel
                      THEN /\ confirms' = [confirms EXCEPT ![h] = [hw EXCEPT !.pc = "log_send"]]
                           /\ files' = written
                      ELSE /\ confirms' = [confirms EXCEPT ![h] = read_back(hw, written)]
                           /\ files' = files_after_read_back(hw, written)
     \/ /\ IF channels[c].exists THEN raises ELSE returns
        /\ confirms' = [confirms EXCEPT ![h] = archival_failed(@)]
        /\ UNCHANGED <<channels, files>>
  /\ UNCHANGED <<guildVars, sideVars, backups, roles, seqDoc, counterFile, creates, closes, archive>>

\* log_channel.send(embed, file) returns or raises.
log_send_return(h) ==
  /\ confirms[h].pc = "log_send"
  /\ \/ /\ confirms' = [confirms EXCEPT ![h] = read_back(@, files)]
        /\ files' = files_after_read_back(confirms[h], files)
        /\ returns
     \/ /\ confirms' = [confirms EXCEPT ![h] = archival_failed(@)]
        /\ raises
        /\ UNCHANGED files
  /\ UNCHANGED <<guildVars, sideVars, backups, roles, seqDoc, counterFile, channels, creates,
                 closes, archive>>


\* Fault injection: an insert_one that reports success and stores nothing.
insert_return_storing_nothing(h) ==
  /\ confirms[h].pc = "insert"
  /\ confirms' = [confirms EXCEPT ![h].archived = "saved", ![h].pc = "notice"]
  /\ returns
  /\ files' = remove_file(files, confirms[h].path)
  /\ UNCHANGED <<guildVars, sideVars, backups, roles, seqDoc, counterFile, channels, creates, closes,
                 archive>>

\* Fault injection: a save that replaces the document stored for the channel
\* (replace_one with upsert) where the code calls insert_one.
insert_return_replacing(h) ==
  /\ confirms[h].pc = "insert"
  /\ LET doc == transcript_doc(confirms[h].chan, confirms[h].html, confirms[h].closed_by)
         old == {k \in DOMAIN archive : archive[k].channel_id = confirms[h].chan}
     IN archive' = IF old = {} THEN Append(archive, doc)
                   ELSE [k \in DOMAIN archive |-> IF k \in old THEN doc ELSE archive[k]]
  /\ confirms' = [confirms EXCEPT ![h].archived = "saved", ![h].pc = "notice"]
  /\ returns
  /\ files' = remove_file(files, confirms[h].path)
  /\ UNCHANGED <<guildVars, sideVars, backups, roles, seqDoc, counterFile, channels, creates, closes>>

\* insert_one returns or raises (caught inside save_transcript_to_mongo); then
\* os.remove(transcript_file), whose FileNotFoundError the handler's except catches.
insert_return(h) ==
  /\ confirms[h].pc = "insert"
  /\ \/ /\ archive' = Append(archive,
              transcript_doc(confirms[h].chan, confirms[h].html, confirms[h].closed_by))
        /\ confirms' = [confirms EXCEPT ![h].archived = "saved", ![h].pc = "notice"]
        /\ returns
     \/ /\ confirms' = [confirms EXCEPT ![h] = archival_failed(@)]
        /\ raises
        /\ UNCHANGED archive
  /\ files' = remove_file(files, confirms[h].path)
  /\ UNCHANGED <<guildVars, sideVars, backups, roles, seqDoc, counterFile, channels, creates, closes>>

\* channel.send("Deleting this ticket ...") returns, or raises out of the handler.
\* asyncio.sleep(3) follows and touches nothing, so the step runs on to the
\* call of channel.delete().
notice_return(h) ==
  /\ confirms[h].pc = "notice"
  /\ LET c == confirms[h].chan IN
     \/ /\ channels[c].exists
        /\ channels' = [channels EXCEPT ![c].msgs = @ + 1]
        /\ confirms' = [confirms EXCEPT ![h].pc = "delete"]
        /\ returns
     \/ /\ IF channels[c].exists THEN raises ELSE returns
        /\ confirms' = [confirms EXCEPT ![h].pc = "failed", ![h].err = "notice"]
        /\ UNCHANGED channels
  /\ UNCHANGED <<guildVars, sideVars, backups, roles, seqDoc, counterFile, creates, closes,
                 files, archive>>

\* channel.delete() returns, or raises out of the handler (always when the
\* channel is already gone).
delete_return(h) ==
  /\ confirms[h].pc = "delete"
  /\ LET c == confirms[h].chan IN
     \/ /\ channels[c].exists
        /\ channels' = [channels EXCEPT ![c].exists = FALSE]
        /\ confirms' = [confirms EXCEPT ![h].pc = "done"]
        /\ returns
     \/ /\ IF channels[c].exists THEN raises ELSE returns
        /\ confirms' = [confirms EXCEPT ![h].pc = "failed", ![h].err = "delete"]
        /\ UNCHANGED channels
  /\ UNCHANGED <<guildVars, sideVars, backups, roles, seqDoc, counterFile, creates, closes,
                 files, archive>>

\* ------------------------------------------------------------- environment
\* An administrator gives member u role r or takes it away.
member_update(u, r) ==
  /\ events(1)
  /\ r = STAFF_ROLE_ID => staffRole
  /\ roles' = [roles EXCEPT ![u] = IF r \in @ THEN @ \ {r} ELSE @ \cup {r}]
  /\ UNCHANGED <<guildVars, sideVars, backups, seqDoc, counterFile, channels, creates, closes,
                 confirms, files, archive>>

\* The process is stopped and started again. Handlers in flight are lost; so
\* are the views, none of which is registered as persistent (no bot.add_view):
\* forms, Close Ticket buttons and prompts of the old process are no longer
\* dispatched. Counters, archive, files and channels are kept.
restart ==
  /\ events(1)
  /\ creates' = [i \in DOMAIN creates |->
                   IF creates[i].pc \in {"done", "failed"} THEN creates[i]
                   ELSE [creates[i] EXCEPT !.pc = "killed"]]
  /\ confirms' = [h \in DOMAIN confirms |->
                    IF confirms[h].pc \in {"done", "failed"} THEN confirms[h]
                    ELSE [confirms[h] EXCEPT !.pc = "killed"]]
  /\ closes' = [p \in DOMAIN closes |->
                  IF closes[p].view = "active" THEN [closes[p] EXCEPT !.view = "finished"]
                  ELSE closes[p]]
  /\ channels' = [c \in DOMAIN channels |-> [channels[c] EXCEPT !.closeView = FALSE]]
  /\ UNCHANGED <<guildVars, sideVars, backups, roles, seqDoc, counterFile, files, archive>>

\* ----------------------------------------------------------------- /backup
\* The ticket numbers a member may type into /backup.
TicketNumbers == 1 .. MaxCreates + 1

\* The documents find_one({"channel_name": name}) matches in collection coll.
matching(coll, name) ==
  {k \in DOMAIN archive : archive[k].coll = coll /\ archive[k].channel_name = name}

\* find_one: the first matching document in insertion order.
find_one(coll, name) ==
  archive[CHOOSE k \in matching(coll, name) : \A j \in matching(coll, name) : k <= j]

\* What backup_ticket answers for ticket_number n: it looks in ticket_tool's
\* collection for ticket-n, then for gang-ticket-n.
backup_reply(n) ==
  LET coll == collection_of("normal")
      first == channel_name("normal", n)
      second == channel_name("gang", n)
  IN IF ~mongo
     THEN [number |-> n, reply |-> "not_configured", name |-> <<>>, html |-> <<>>]
     ELSE IF matching(coll, first) # {}
     THEN [number |-> n, reply |-> "found", name |-> first,
           html |-> find_one(coll, first).transcript_html]
     ELSE IF matching(coll, second) # {}
     THEN [number |-> n, reply |-> "found", name |-> second,
           html |-> find_one(coll, second).transcript_html]
     ELSE [number |-> n, reply |-> "not_found", name |-> second, html |-> <<>>]

\* TicketTool.backup_ticket: the two lookups read the archive and the backup
\* file is written, sent and removed again, so the handler is one step that
\* leaves its reply; a find_one or the send that raises gives the error reply.
backup_ticket(n) ==
  /\ Len(backups) < MaxBackups
  /\ \/ backups' = Append(backups, backup_reply(n)) /\ returns
     \/ /\ mongo
        /\ backups' = Append(backups, [backup_reply(n) EXCEPT !.reply = "error",
                                                              !.html = <<>>])
        /\ raises
  /\ UNCHANGED <<guildVars, sideVars, roles, seqDoc, counterFile, channels, creates,
                 closes, confirms, files, archive>>

\* ----------------------------------------------------------- specification
\* ----------------------------------------------------- transcript documents
\* Text is a sequence of characters. html.escape(s), quote=True: each of the
\* five special characters is replaced by its entity, one symbol here.
escape_char(ch) ==
  CASE ch = "&" -> "&amp;"
    [] ch = "<" -> "&lt;"
    [] ch = ">" -> "&gt;"
    [] ch = "\"" -> "&quot;"
    [] ch = "'" -> "&#x27;"
    [] OTHER -> ch

escape(s) == [k \in DOMAIN s |-> escape_char(s[k])]

\* str.lower(), on the characters the file names here are made of.
lower_char(ch) ==
  CASE ch = "P" -> "p" [] ch = "N" -> "n" [] ch = "G" -> "g" [] OTHER -> ch

lower(s) == [k \in DOMAIN s |-> lower_char(s[k])]

endswith(s, suffix) ==
  Len(s) >= Len(suffix) /\ SubSeq(s, Len(s) - Len(suffix) + 1, Len(s)) = suffix

IMAGE_SUFFIXES ==
  { <<".", "p", "n", "g">>, <<".", "j", "p", "g">>, <<".", "j", "p", "e", "g">>,
    <<".", "g", "i", "f">>, <<".", "w", "e", "b", "p">> }

\* A document is a sequence of pieces: literal text of the f-string templates,
\* interpolated values, and formatted times.
literal(s) == [kind |-> "literal", text |-> s]
value(s) == [kind |-> "value", text |-> s]
strftime(t) == [kind |-> "time", at |-> t]

\* Fault injection: the history fetched newest first.
newest_first(msgs) ==
  LET RECURSIVE desc(_)
      desc(S) == IF S = {} THEN <<>>
                 ELSE LET x == CHOOSE y \in S : \A z \in S : z.id <= y.id
                      IN <<x>> \o desc(S \ {x})
  IN desc(msgs)

\* channel.history(limit=None, oldest_first=True): the messages by ascending id.
RECURSIVE history(_)
history(msgs) ==
  IF msgs = {} THEN <<>>
  ELSE LET x == CHOOSE y \in msgs : \A z \in msgs : y.id <= z.id
       IN <<x>> \o history(msgs \ {x})

\* The pieces of one embed: title and description when not empty, every field.
RECURSIVE render_fields(_)
render_fields(fields) ==
  IF fields = <<>> THEN <<>>
  ELSE <<literal("<div><b>"), value(escape(Head(fields).name)), literal(":</b> "),
         value(escape(Head(fields).value)), literal("</div>")>>
       \o render_fields(Tail(fields))

render_embed(embed) ==
  <<literal("<div class=\"embed\">")>>
  \o (IF embed.title # <<>>
      THEN <<literal("<div class=\"embed-title\">"), value(escape(embed.title)),
             literal("</div>")>>
      ELSE <<>>)
  \o (IF embed.description # <<>>
      THEN <<literal("<div class=\"content\">"), value(escape(embed.description)),
             literal("</div>")>>
      ELSE <<>>)
  \o render_fields(embed.fields)
  \o <<literal("</div>")>>

RECURSIVE render_embeds(_)
render_embeds(embeds) ==
  IF embeds = <<>> THEN <<>>
  ELSE render_embed(Head(embeds)) \o render_embeds(Tail(embeds))

\* The file name is escaped, the url is interpolated as it is.
render_attachment(attachment) ==
  LET fname == escape(attachment.filename) IN
  IF \E suffix \in IMAGE_SUFFIXES : endswith(lower(fname), suffix)
  THEN <<literal("<img src=\""), value(attachment.url), literal("\" alt=\""),
         value(fname), literal("\">")>>
  ELSE <<literal("<a href=\""), value(attachment.url), literal("\">"),
         value(fname), literal("</a>")>>

RECURSIVE render_attachments(_)
render_attachments(attachments) ==
  IF attachments = <<>> THEN <<>>
  ELSE render_attachment(Head(attachments)) \o render_attachments(Tail(attachments))

\* The entry of one message in create_transcript.
render_message(msg) ==
  <<literal("<div class=\"msg\"><span class=\"author\">"), value(escape(msg.author)),
    literal("</span><span class=\"time\">["), strftime(msg.created_at),
    literal("]</span>")>>
  \o (IF msg.content # <<>>
      THEN <<literal("<div class=\"content\">"), value(escape(msg.content)),
             literal("</div>")>>
      ELSE <<>>)
  \o render_embeds(msg.embeds)
  \o render_attachments(msg.attachments)
  \o <<literal("</div>")>>

\* The entry of one message in create_support_transcript: author, time and
\* content only.
render_support_message(msg) ==
  <<literal("<div class='msg'><span class='author'>"), value(escape(msg.author)),
    literal("</span><span class='time'>["), strftime(msg.created_at),
    literal("]</span>")>>
  \o (IF msg.content # <<>>
      THEN <<literal("<div class='content'>"), value(escape(msg.content)),
             literal("</div>")>>
      ELSE <<>>)
  \o <<literal("</div>")>>

\* The head of both documents, up to the <hr>; heading is the text of the <h2>.
render_head(heading, now) ==
  <<literal("<title>Transcript - "), value(escape(room.name)),
    literal("</title><h2>"), literal(heading), value(escape(room.name)),
    literal("</h2><p>Server: "), value(escape(room.guild)),
    literal("<br>Generated: "), strftime(now), literal("</p><hr>")>>

\* html_content of create_transcript at second now.
transcript_html(now) ==
  LET messages == history(room.messages) IN
  [head |-> render_head("Transcript for #", now),
   entries |-> [k \in DOMAIN messages |-> render_message(messages[k])]]

\* html_content of create_support_transcript at second now.
support_transcript_html(now) ==
  LET messages == history(room.messages) IN
  [head |-> render_head("Support Ticket Transcript - ", now),
   entries |-> [k \in DOMAIN messages |-> render_support_message(messages[k])]]

\* The clock does not run backwards between two renderings.
clock ==
  {now \in 1 .. MaxSeconds : rendered # <<>> => now >= rendered[Len(rendered)][2]}

\* create_transcript(channel): the document is written to
\* transcript_{channel.id}_{second}.html and the path is returned.
create_transcript ==
  /\ room.kind # "support"
  /\ Len(rendered) < MaxRenders
  /\ \E now \in clock :
       LET file_path == <<room.id, now>> IN
       /\ files' = write_file(files, file_path, transcript_html(now))
       /\ rendered' = Append(rendered, file_path)
  /\ UNCHANGED <<guildVars, recordVars, nameVars, backups, adds, roles, nEvents, seqDoc, counterFile, channels,
                 creates, closes, confirms, archive, room>>

\* create_support_transcript(channel)
create_support_transcript ==
  /\ room.kind = "support"
  /\ Len(rendered) < MaxRenders
  /\ \E now \in clock :
       LET path == <<room.id, now>> IN
       /\ files' = write_file(files, path, support_transcript_html(now))
       /\ rendered' = Append(rendered, path)
  /\ UNCHANGED <<guildVars, recordVars, nameVars, backups, adds, roles, nEvents, seqDoc, counterFile, channels,
                 creates, closes, confirms, archive, room>>

\* The messages a rendered channel may hold: plain text; markup in the
\* author's name and in the content; an embed; an image with a signed url;
\* a file whose name carries markup.
MessagePool ==
  { [id |-> 1, created_at |-> 1, author |-> <<"a", "l">>, content |-> <<"h", "i">>,
     embeds |-> <<>>, attachments |-> <<>>],
    [id |-> 2, created_at |-> 1, author |-> <<"<", "b", ">">>,
     content |-> <<"a", "<", "b", "&", "\"", "c", "'">>,
     embeds |-> <<>>, attachments |-> <<>>],
    [id |-> 3, created_at |-> 2, author |-> <<"b", "o", "t">>, content |-> <<>>,
     embeds |-> <<[title |-> <<"<", "T", ">">>, description |-> <<"&">>,
                   fields |-> <<[name |-> <<"n", "<">>, value |-> <<">", "v">>]>>],
                  [title |-> <<>>, description |-> <<>>, fields |-> <<>>]>>,
     attachments |-> <<>>],
    [id |-> 4, created_at |-> 2, author |-> <<"a", "l">>, content |-> <<>>,
     embeds |-> <<>>,
     attachments |-> <<[filename |-> <<"x", ".", "P", "N", "G">>,
                        url |-> <<"u", "?", "e", "x", "&", "i", "s">>]>>],
    [id |-> 5, created_at |-> 3, author |-> <<"a", "l">>, content |-> <<"s", "e", "e">>,
     embeds |-> <<>>,
     attachments |-> <<[filename |-> <<"<", "f", ">", ".", "t", "x", "t">>,
                        url |-> <<"u", "/", "f">>]>>] }

GuildNames == { <<"G">>, <<"<", "G", "&", ">">> }

\* The channels a transcript is rendered of.
Rooms ==
  { [id |-> 1, kind |-> kind, name |-> <<"t", "-", "1">>, guild |-> g, messages |-> msgs] :
      kind \in {"normal", "support"}, g \in GuildNames,
      msgs \in {S \in SUBSET MessagePool : Cardinality(S) <= MaxMessages} }

\* No channel is being rendered.
NoRoom == [id |-> 0, kind |-> "none", name |-> <<>>, guild |-> <<>>, messages |-> {}]

\* ------------------------------------------------------ recording sessions
Guilds == {1, 2}

\* guild.id not in self.active_sessions
NoSession == [id |-> 0, user |-> 0]

\* self.active_sessions = {}
InitRecord ==
  /\ active_sessions = [g \in Guilds |-> NoSession]
  /\ starts = <<>>
  /\ stops = <<>>

\* The two tests of start_record, in the order of the code.
start_rejection(g, in_voice) ==
  IF ~in_voice THEN "not_in_voice"
  ELSE IF active_sessions[g] # NoSession THEN "already_active"
  ELSE "none"

\* RecordManager.start_record, used by u in guild g, up to its first await: a
\* rejection, or the call of interaction.response.defer.
start_record(u, g) ==
  /\ Len(starts) < MaxStarts
  /\ \E in_voice \in BOOLEAN :
       LET a == [user |-> u, guild |-> g, pc |-> "defer", id |-> 0, reply |-> "none"]
       IN starts' = Append(starts,
            IF start_rejection(g, in_voice) = "none" THEN a
            ELSE [a EXCEPT !.pc = "done", !.reply = start_rejection(g, in_voice)])
  /\ UNCHANGED <<ticketVars, nameVars, active_sessions, stops>>

\* defer returns and channel.connect is called; or defer raises.
start_defer_return(a) ==
  /\ starts[a].pc = "defer"
  /\ \/ starts' = [starts EXCEPT ![a].pc = "connect"]
     \/ starts' = [starts EXCEPT ![a].pc = "failed"]
  /\ UNCHANGED <<ticketVars, nameVars, active_sessions, stops>>

\* channel.connect returns, or raises ClientException, which is caught: the
\* session gets its uuid4 and is stored under the guild, and the followup is
\* sent. Any other exception of connect leaves the handler.
connect_return(a) ==
  /\ starts[a].pc = "connect"
  /\ \/ /\ active_sessions' = [active_sessions EXCEPT
              ![starts[a].guild] = [id |-> a, user |-> starts[a].user]]
        /\ starts' = [starts EXCEPT ![a].pc = "followup", ![a].id = a]
     \/ /\ starts' = [starts EXCEPT ![a].pc = "failed"]
        /\ UNCHANGED active_sessions
  /\ UNCHANGED <<ticketVars, nameVars, stops>>

\* followup.send returns: "Recording Started" is announced, and the embed goes
\* to the log channel; or it raises.
start_followup_return(a) ==
  /\ starts[a].pc = "followup"
  /\ \/ starts' = [starts EXCEPT ![a].pc = "done", ![a].reply = "started"]
     \/ starts' = [starts EXCEPT ![a].pc = "failed"]
  /\ UNCHANGED <<ticketVars, nameVars, active_sessions, stops>>

\* RecordManager.stop_record, used by u in guild g, up to its first await: the
\* rejection when the guild has no session, or the session is popped and the
\* embed is sent to the log channel.
stop_record(u, g) ==
  /\ Len(stops) < MaxStops
  /\ LET b == [user |-> u, guild |-> g, session |-> active_sessions[g].id,
               pc |-> "log", reply |-> "none"]
     IN IF active_sessions[g] = NoSession
        THEN /\ stops' = Append(stops, [b EXCEPT !.pc = "done", !.reply = "no_session"])
             /\ UNCHANGED active_sessions
        ELSE /\ stops' = Append(stops, b)
             /\ active_sessions' = [active_sessions EXCEPT ![g] = NoSession]
  /\ UNCHANGED <<ticketVars, nameVars, starts>>

\* log_channel.send returns and "closed and logged" is replied; the insert
\* into the recordings collection follows. Or the send raises.
stop_log_return(b) ==
  /\ stops[b].pc = "log"
  /\ \/ stops' = [stops EXCEPT ![b].pc = "done", ![b].reply = "logged"]
     \/ stops' = [stops EXCEPT ![b].pc = "failed"]
  /\ UNCHANGED <<ticketVars, nameVars, active_sessions, starts>>

\* ------------------------------------------------------ name-change requests
InitNames ==
  /\ requests = <<>>
  /\ reviews = <<>>
  /\ nicks = [u \in Users |-> [nick |-> <<>>, edits |-> 0]]

\* The names asked for in the form's "New Name" field.
NewNames == { <<"A">>, <<"B">> }

\* NameChangeModal.on_submit: the request message goes to the approval
\* channel, with the fields New Name and Requested By and the buttons
\* approve:{user.id} and reject:{user.id}; the member is told it was submitted.
\* With the staff role gone staff_role.mention raises and nothing is sent; the
\* send itself may raise as well.
request_submit(u, name) ==
  /\ Len(requests) < MaxRequests
  /\ \/ /\ staffRole
        /\ requests' = Append(requests,
              [requester |-> u, new_name |-> name, status |-> <<>>, frozen |-> FALSE])
     \/ UNCHANGED requests
  /\ UNCHANGED <<ticketVars, recordVars, reviews, nicks>>

\* The fields the handlers insert at position 0 of the embed.
status_field(status, actor) == [name |-> status, by |-> actor]

\* A press of Approve or Reject on request message r reaches the bot: the
\* buttons of the message the actor sees are not yet the disabled ones. The
\* handlers look at the custom_id and at nothing about the actor.
review(kind, actor, r) ==
  [kind |-> kind, actor |-> actor, req |-> r, staff |-> is_staff(actor),
   requester_id |-> requests[r].requester, new_name |-> requests[r].new_name,
   embed |-> requests[r].status, pc |-> "edit", edited |-> FALSE, renamed |-> FALSE]

\* on_interaction with custom_id approve:{id}, then handle_approve up to its
\* first await: the embed of interaction.message is copied, the New Name read
\* from it and the Status field inserted, and original_msg.edit is called.
handle_approve(actor, r) ==
  /\ Len(reviews) < MaxReviews
  /\ ~requests[r].frozen
  /\ reviews' = Append(reviews, review("approve", actor, r))
  /\ UNCHANGED <<ticketVars, recordVars, requests, nicks>>

\* The edit of the request message returns: the message shows the copied
\* embed with the new Status field in front, and disabled buttons. Or it raises.
edit_return(v) ==
  /\ reviews[v].pc = "edit"
  /\ \/ /\ requests' = [requests EXCEPT
              ![reviews[v].req].status =
                 <<status_field(IF reviews[v].kind = "approve" THEN "approved" ELSE "rejected",
                                reviews[v].actor)>> \o reviews[v].embed,
              ![reviews[v].req].frozen = TRUE]
        /\ reviews' = [reviews EXCEPT
              ![v].edited = TRUE,
              ![v].pc = IF reviews[v].kind = "approve" THEN "member_edit" ELSE "done"]
     \/ /\ reviews' = [reviews EXCEPT ![v].pc = "failed"]
        /\ UNCHANGED requests
  /\ UNCHANGED <<ticketVars, recordVars, nicks>>

\* After "Approved." and fetch_member(requester_id): member.edit(nick=new_name)
\* returns, or one of the three calls raises.
member_edit_return(v) ==
  /\ reviews[v].pc = "member_edit"
  /\ \/ /\ nicks' = [nicks EXCEPT ![reviews[v].requester_id] =
                       [nick |-> reviews[v].new_name, edits |-> @.edits + 1]]
        /\ reviews' = [reviews EXCEPT ![v].renamed = TRUE, ![v].pc = "done"]
     \/ /\ reviews' = [reviews EXCEPT ![v].pc = "failed"]
        /\ UNCHANGED nicks
  /\ UNCHANGED <<ticketVars, recordVars, requests>>

\* on_interaction with custom_id reject:{id}: the rejection form is shown.
reject(actor, r) ==
  /\ Len(reviews) < MaxReviews
  /\ ~requests[r].frozen
  /\ reviews' = Append(reviews, [review("reject", actor, r) EXCEPT !.pc = "modal"])
  /\ UNCHANGED <<ticketVars, recordVars, requests, nicks>>

\* Reject.on_submit up to its first await: the embed of the message as it is
\* when the form is submitted is copied, Status and Rejection Reason are added
\* and msg.edit is called.
reject_submit(v) ==
  /\ reviews[v].pc = "modal"
  /\ reviews' = [reviews EXCEPT ![v].embed = requests[reviews[v].req].status,
                                ![v].pc = "edit"]
  /\ UNCHANGED <<ticketVars, recordVars, requests, nicks>>

\* The roles the members start with: 1 holds both gang roles; 2 the first gang
\* role, the staff role and a role whose name misses the prefix by its case;
\* 3 the first gang role; 4 the second.
InitRoles == [u \in Users |-> CASE u = 1 -> {1, 2} [] u = 2 -> {1, 3, 4}
                                [] u = 3 -> {1} [] u = 4 -> {2}]

\* The guilds the bot starts in: <<mongo, category, logChannel, staffRole>>.
\* Everything configured; then without MongoDB, without the log channel,
\* without both, without the staff role, without the category.
GuildConfigs ==
  { <<TRUE, TRUE, TRUE, TRUE>>, <<FALSE, TRUE, TRUE, TRUE>>, <<TRUE, TRUE, FALSE, TRUE>>,
    <<FALSE, TRUE, FALSE, TRUE>>, <<TRUE, TRUE, TRUE, FALSE>>, <<TRUE, FALSE, TRUE, TRUE>> }

Init ==
  /\ \E g \in GuildConfigs :
       /\ mongo = g[1]
       /\ category = g[2]
       /\ logChannel = g[3]
       /\ staffRole = g[4]
  /\ roles = [u \in Users |-> IF staffRole THEN InitRoles[u]
                               ELSE InitRoles[u] \ {STAFF_ROLE_ID}]
  /\ nEvents = 0
  /\ seqDoc = [s \in Scopes |-> 0]
  /\ counterFile = [s \in Scopes |-> 0]
  /\ channels = <<>>
  /\ creates = <<>>
  /\ closes = <<>>
  /\ confirms = <<>>
  /\ files = <<>>
  /\ archive = <<>>
  /\ backups = <<>>
  /\ adds = <<>>
  /\ room = NoRoom
  /\ rendered = <<>>
  /\ InitRecord
  /\ InitNames

Next ==
  \/ \E u \in Actors : create_normal_ticket(u)
  \/ \E u \in Actors : create_gang_ticket(u)
  \/ \E u \in Actors : create_support_ticket(u)
  \/ \E i \in DOMAIN creates : on_submit(i)
  \/ \E i \in DOMAIN creates : alloc_return(i)
  \/ \E i \in DOMAIN creates : create_return(i)
  \/ \E i \in DOMAIN creates : send_header_return(i)
  \/ \E i \in DOMAIN creates : send_view_return(i)
  \/ \E i \in DOMAIN creates : mention_return(i)
  \/ \E i \in DOMAIN creates : finish_return(i)
  \/ \E u \in Actors, c \in DOMAIN channels : close_ticket(u, c)
  \/ \E p \in DOMAIN closes : view_timeout(p)
  \/ \E p \in DOMAIN closes : cancel(p)
  \/ \E p \in DOMAIN closes : confirm(p)
  \/ \E h \in DOMAIN confirms : history_return(h)
  \/ \E h \in DOMAIN confirms : log_send_return(h)
  \/ \E h \in DOMAIN confirms : insert_return(h)
  \/ \E h \in DOMAIN confirms : notice_return(h)
  \/ \E h \in DOMAIN confirms : delete_return(h)
  \/ \E u \in Actors, r \in RoleIds : member_update(u, r)

Spec == Init /\ [][Next]_vars

\* The handlers together with what happens around them: restarts of the
\* process and the /backup command.
NextOps ==
  \/ Next
  \/ restart
  \/ \E n \in TicketNumbers : backup_ticket(n)

OpsSpec == Init /\ [][NextOps]_vars

\* The transcript generators on their own, applied to a channel with a given
\* history.
RenderInit ==
  /\ mongo = TRUE /\ category = TRUE /\ logChannel = TRUE /\ staffRole = TRUE
  /\ roles = InitRoles
  /\ nEvents = 0
  /\ seqDoc = [s \in Scopes |-> 0]
  /\ counterFile = [s \in Scopes |-> 0]
  /\ channels = <<>>
  /\ creates = <<>>
  /\ closes = <<>>
  /\ confirms = <<>>
  /\ files = <<>>
  /\ archive = <<>>
  /\ backups = <<>>
  /\ adds = <<>>
  /\ room \in Rooms
  /\ rendered = <<>>
  /\ InitRecord
  /\ InitNames

RenderNext ==
  \/ create_transcript
  \/ create_support_transcript

RenderSpec == RenderInit /\ [][RenderNext]_vars

\* The recording commands, in a guild with everything configured.
RecordInit == Init /\ mongo /\ category /\ logChannel /\ staffRole

RecordNext ==
  \/ \E u \in Actors, g \in Guilds : start_record(u, g)
  \/ \E a \in DOMAIN starts : start_defer_return(a)
  \/ \E a \in DOMAIN starts : connect_return(a)
  \/ \E a \in DOMAIN starts : start_followup_return(a)
  \/ \E u \in Actors, g \in Guilds : stop_record(u, g)
  \/ \E b \in DOMAIN stops : stop_log_return(b)

RecordSpec == RecordInit /\ [][RecordNext]_vars

\* The name-change requests, in a guild with everything configured.
NameInit == Init /\ mongo /\ category /\ logChannel /\ staffRole

NameNext ==
  \/ \E u \in Actors, name \in NewNames : request_submit(u, name)
  \/ \E actor \in Actors, r \in DOMAIN requests : handle_approve(actor, r)
  \/ \E actor \in Actors, r \in DOMAIN requests : reject(actor, r)
  \/ \E v \in DOMAIN reviews : reject_submit(v)
  \/ \E v \in DOMAIN reviews : edit_return(v)
  \/ \E v \in DOMAIN reviews : member_edit_return(v)

NameSpec == NameInit /\ [][NameNext]_vars


\* ------------------------------------------------------ members in a ticket
\* Member u may send in channel c: an overwrite of the member, or of a role
\* the member holds, allows it.
can_send(u, c) ==
  LET o == channels[c].overwrites IN
  \/ <<"member", u>> \in DOMAIN o /\ o[<<"member", u>>] = "read_send"
  \/ \E r \in roles[u] : <<"role", r>> \in DOMAIN o /\ o[<<"role", r>>] = "read_send"

\* A member sends a message in a ticket channel.
post_message(u, c) ==
  /\ channels[c].exists
  /\ can_send(u, c)
  /\ events(1)
  /\ channels' = [channels EXCEPT ![c].msgs = @ + 1, ![c].posted = channels[c].msgs + 1]
  /\ UNCHANGED <<guildVars, sideVars, backups, roles, seqDoc, counterFile, creates,
                 closes, confirms, files, archive>>

\* channel.name.startswith(("ticket-", "gang-ticket-"))
named_as_ticket(name) == name[1] \in {"ticket", "gang-ticket"}

\* Fault injection: /add without the test of the staff role.
add_rejection_by_name_only(u, c) ==
  IF ~named_as_ticket(channels[c].name) THEN "not_a_ticket" ELSE "none"

\* The two tests of add_user_to_ticket, in the order of the code.
add_rejection(u, c) ==
  IF ~named_as_ticket(channels[c].name) THEN "not_a_ticket"
  ELSE IF ~is_staff(u) THEN "no_permission"
  ELSE "none"

\* TicketTool.add_user_to_ticket, used by u in channel c for member m, up to
\* its first await: a rejection, or the call of channel.set_permissions.
add_user_to_ticket(u, m, c) ==
  /\ channels[c].exists
  /\ events(1)
  /\ LET a == [user |-> u, member |-> m, chan |-> c, pc |-> "set_permissions",
               reply |-> "none"]
     IN adds' = Append(adds, IF add_rejection(u, c) = "none" THEN a
                             ELSE [a EXCEPT !.pc = "done", !.reply = add_rejection(u, c)])
  /\ UNCHANGED <<guildVars, renderVars, recordVars, nameVars, backups, roles, seqDoc, counterFile, channels,
                 creates, closes, confirms, files, archive>>

\* channel.set_permissions(member, read_messages=True, send_messages=True)
set_permissions(o, m) ==
  [k \in DOMAIN o \cup {<<"member", m>>} |->
     IF k = <<"member", m>> THEN "read_send" ELSE o[k]]

\* set_permissions returns: the overwrite is in place, the handler replies
\* "added" and announces it in the channel. Or it raises, always when the
\* channel is gone, and the handler ends without a reply.
set_permissions_return(a) ==
  /\ adds[a].pc = "set_permissions"
  /\ LET c == adds[a].chan IN
     \/ /\ channels[c].exists
        /\ channels' = [channels EXCEPT
              ![c].overwrites = set_permissions(@, adds[a].member),
              ![c].msgs = @ + 1]
        /\ adds' = [adds EXCEPT ![a].pc = "done", ![a].reply = "added"]
        /\ returns
     \/ /\ IF channels[c].exists THEN raises ELSE returns
        /\ adds' = [adds EXCEPT ![a].pc = "failed"]
        /\ UNCHANGED channels
  /\ UNCHANGED <<guildVars, renderVars, recordVars, nameVars, backups, roles, seqDoc, counterFile, creates,
                 closes, confirms, files, archive>>

\* ------------------------------------------------- two tickets that are open
\* The channel of ticket number n of member u, as create_text_channel and the
\* sends of the creation handler leave it: the header and the message with the
\* Close Ticket view, and for a Support ticket the staff mention as well.
open_ticket(kind, u, n) ==
  [name |-> channel_name(kind, n), topic |-> str(u), kind |-> kind,
   overwrites |-> overwrites_for(kind, u), exists |-> TRUE, closeView |-> TRUE,
   msgs |-> IF kind = "support" THEN 3 ELSE 2, posted |-> 0, stamp |-> 0]

\* The request that opened it, answered with the success reply.
opened_request(kind, u, n, c) ==
  [pc |-> "done", replies |-> <<"created">>, kind |-> kind, user |-> u, num |-> n,
   allocFailed |-> FALSE, name |-> channel_name(kind, n),
   overwrites |-> overwrites_for(kind, u), chan |-> c]

\* Member 1 has opened the first Normal ticket and member 2 the first Support
\* ticket, in a guild that has its category; nothing else has happened.
CloseInit ==
  /\ \E g \in GuildConfigs :
       /\ g[2]
       /\ mongo = g[1]
       /\ category = g[2]
       /\ logChannel = g[3]
       /\ staffRole = g[4]
  /\ roles = [u \in Users |-> IF staffRole THEN InitRoles[u]
                               ELSE InitRoles[u] \ {STAFF_ROLE_ID}]
  /\ nEvents = MaxEventsMany - MaxCloseEvents
  /\ seqDoc = [s \in Scopes |-> IF mongo THEN 1 ELSE 0]
  /\ counterFile = [s \in Scopes |-> IF mongo THEN 0 ELSE 1]
  /\ channels = <<open_ticket("normal", 1, 1), open_ticket("support", 2, 1)>>
  /\ creates = <<opened_request("normal", 1, 1, 1), opened_request("support", 2, 1, 2)>>
  /\ closes = <<>>
  /\ confirms = <<>>
  /\ files = <<>>
  /\ archive = <<>>
  /\ backups = <<>>
  /\ adds = <<>>
  /\ room = NoRoom
  /\ rendered = <<>>
  /\ InitRecord
  /\ InitNames

\* The handlers of the close path.
CloseNext ==
  \/ \E u \in Actors, c \in DOMAIN channels : close_ticket(u, c)
  \/ \E p \in DOMAIN closes : view_timeout(p)
  \/ \E p \in DOMAIN closes : cancel(p)
  \/ \E p \in DOMAIN closes : confirm(p)
  \/ \E h \in DOMAIN confirms : history_return(h)
  \/ \E h \in DOMAIN confirms : log_send_return(h)
  \/ \E h \in DOMAIN confirms : insert_return(h)
  \/ \E h \in DOMAIN confirms : notice_return(h)
  \/ \E h \in DOMAIN confirms : delete_return(h)

CloseSpec == CloseInit /\ [][CloseNext]_vars

\* The close path together with what members and staff do in an open ticket:
\* messages and the /add command.
TicketNext ==
  \/ CloseNext
  \/ \E u \in Actors, c \in DOMAIN channels : post_message(u, c)
  \/ \E u \in Actors, m \in AddedMembers, c \in DOMAIN channels : add_user_to_ticket(u, m, c)
  \/ \E a \in DOMAIN adds : set_permissions_return(a)

TicketSpec == CloseInit /\ [][TicketNext]_vars


\* =================================================================== claims
\* The member whose request created channel c.
creator_of(c) == creates[CHOOSE i \in DOMAIN creates : creates[i].chan = c].user

\* The archive documents stored for channel c.
records_of(c) == {k \in DOMAIN archive : archive[k].channel_id = c}

\* The Confirm handlers started on channel c.
confirms_on(c) == {h \in DOMAIN confirms : confirms[h].chan = c}

\* A request whose call of the allocator returned a number.
allocated(i) == creates[i].num > 0 /\ ~creates[i].allocFailed

\* C1: in every interleaving of creation handlers, no two calls of the
\* allocator for one counter return the same integer, with MongoDB and with
\* the counter file.
C1_DistinctNumbers ==
  \A i, j \in DOMAIN creates :
    (i # j /\ allocated(i) /\ allocated(j)
       /\ scope_of(creates[i].kind) = scope_of(creates[j].kind))
      => creates[i].num # creates[j].num

\* Two handlers of one counter hold their numbers at once, each suspended on
\* create_text_channel.
C1_Witness ==
  /\ Len(creates) = 2
  /\ allocated(1) /\ allocated(2)
  /\ creates[1].pc = "create" /\ creates[2].pc = "create"
  /\ scope_of(creates[1].kind) = scope_of(creates[2].kind)

\* C2: when the allocation fails, the creation is aborted: no channel is
\* created for that request.
C2_AbortOnAllocFailure ==
  \A i \in DOMAIN creates : creates[i].allocFailed => creates[i].chan = NoChannel

\* C3: at most one transcript document is stored per ticket channel.
C3_AtMostOneRecord ==
  \A c \in DOMAIN channels : Cardinality(records_of(c)) <= 1

\* The Close Ticket presses made in channel c.
closes_on(c) == {p \in DOMAIN closes : closes[p].chan = c}

\* The Confirm handlers of channel c whose insert_one returned.
saved_on(c) == {h \in confirms_on(c) : confirms[h].archived = "saved"}

\* The prompt a Confirm handler was started from was shown to the creator.
by_creator(h) == closes[confirms[h].prompt].actor = creator_of(confirms[h].chan)

\* C4 as stated: a close request by the creator followed by one Confirm ends
\* with the channel deleted and exactly one transcript document stored.
C4_ClosedWithOneRecord ==
  \A h \in DOMAIN confirms :
    LET c == confirms[h].chan IN
      (confirms[h].pc = "done" /\ by_creator(h)
         /\ Cardinality(closes_on(c)) = 1 /\ Cardinality(confirms_on(c)) = 1)
        => ~channels[c].exists /\ Cardinality(records_of(c)) = 1

\* C4, amended: a Confirm handler that ran to its end has deleted the channel;
\* the channel's documents are exactly those of the handlers whose insert
\* returned, so one Confirm leaves one document when MongoDB is configured and
\* no archival step raised, and none when it is not configured or a step raised.
C4_ClosedWithRecordIfSaved ==
  \A h \in DOMAIN confirms :
    LET c == confirms[h].chan IN
      confirms[h].pc = "done" =>
        /\ ~channels[c].exists
        /\ confirms[h].archived \in (IF mongo THEN {"saved", "error"}
                                              ELSE {"skipped", "error"})
        /\ Cardinality(records_of(c)) = Cardinality(saved_on(c))
        /\ Cardinality(confirms_on(c)) = 1 =>
             Cardinality(records_of(c)) = (IF confirms[h].archived = "saved" THEN 1 ELSE 0)
        /\ \A k \in records_of(c) :
             /\ archive[k].coll = collection_of(channels[c].kind)
             /\ archive[k].channel_name = channels[c].name
             /\ \E g \in saved_on(c) : archive[k].closed_by_name = confirms[g].closed_by

\* The creator pressed Close Ticket, then Confirm once; the handler ran to its
\* end and the one document is stored.
C4_Witness ==
  \E h \in DOMAIN confirms :
    /\ confirms[h].pc = "done" /\ by_creator(h)
    /\ confirms[h].archived = "saved"
    /\ Cardinality(confirms_on(confirms[h].chan)) = 1
    /\ Cardinality(records_of(confirms[h].chan)) = 1
    /\ ~channels[confirms[h].chan].exists

\* C5: a gang request of a member who holds no role with the gang prefix is
\* denied at whichever step it is in: the step that takes a waiting gang form
\* of such a member ends the request, with the denial when the category is
\* there, without a channel and with the counters unchanged.
C5_GangDeniedAtSubmit ==
  [][\A i \in DOMAIN creates :
       (creates[i].kind = "gang" /\ creates[i].pc = "modal"
          /\ user_roles(creates[i].user) = <<>> /\ creates'[i] # creates[i])
         => /\ creates'[i].pc = "done"
            /\ category => creates'[i].replies = <<"need_gang_role">>
            /\ creates'[i].chan = NoChannel
            /\ seqDoc' = seqDoc /\ counterFile' = counterFile]_vars

\* C6: a press of Close Ticket opens the confirmation prompt if and only if
\* the actor is the member who created the ticket or holds the staff role;
\* any other actor gets the permission-denied reply.
C6_PromptIffCreatorOrStaff ==
  [][Len(closes') = Len(closes) + 1 =>
       LET r == closes'[Len(closes')]
           allowed == r.actor = creator_of(r.chan) \/ STAFF_ROLE_ID \in roles[r.actor]
       IN /\ allowed => r.reply = "confirm_prompt" /\ r.view = "active"
          /\ ~allowed => r.reply = "no_permission" /\ r.view = "none"]_vars

\* Both outcomes happened: a member other than the creator was rejected, and a
\* staff member who is not the creator got the prompt.
C6_Witness ==
  /\ \E p \in DOMAIN closes : closes[p].reply = "no_permission"
  /\ \E p \in DOMAIN closes :
       /\ closes[p].reply = "confirm_prompt"
       /\ closes[p].actor # creator_of(closes[p].chan)

\* C7: a rejected press of Close Ticket changes no state: the channel and its
\* messages, the requests, the Confirm handlers, the transcript files, the
\* archive, the counters and the earlier prompts are as before, and the
\* rejection carries no view.
C7_DeniedChangesNothing ==
  [][(Len(closes') = Len(closes) + 1 /\ closes'[Len(closes')].reply = "no_permission")
       => /\ closes'[Len(closes')].view = "none"
          /\ SubSeq(closes', 1, Len(closes)) = closes
          /\ channels[closes'[Len(closes')].chan].exists
          /\ UNCHANGED <<guildVars, sideVars, backups, roles, seqDoc, counterFile, channels, creates,
                         confirms, files, archive>>]_vars

\* A rejected press, in a channel nobody has asked to confirm closing.
C7_Witness ==
  \E p \in DOMAIN closes :
    /\ closes[p].reply = "no_permission"
    /\ confirms_on(closes[p].chan) = {}
    /\ channels[closes[p].chan].exists

\* The Confirm handlers started from prompt p.
confirms_of(p) == {h \in DOMAIN confirms : confirms[h].prompt = p}

\* C8: a prompt that got no Confirm before its timeout leaves the ticket open:
\* the timeout changes the view and nothing else, a channel no Confirm was
\* accepted for still exists and has no transcript document, and after the
\* timeout a late Confirm or Cancel does nothing (the view stays finished,
\* starts no handler and records no cancellation); a Cancel before the
\* timeout replies and changes nothing else.
C8_TimeoutReturnsToOpen ==
  [][/\ \A c \in DOMAIN channels' :
          confirms_on(c)' = {} => channels'[c].exists /\ records_of(c)' = {}
     /\ \A p \in DOMAIN closes :
          /\ (closes[p].view = "active" /\ closes'[p].view = "finished") =>
               /\ closes'[p].cancelled = closes[p].cancelled
               /\ UNCHANGED <<guildVars, sideVars, backups, roles, seqDoc, counterFile, channels,
                              creates, confirms, files, archive>>
          /\ (~closes[p].cancelled /\ closes'[p].cancelled) =>
               /\ closes'[p].view = closes[p].view
               /\ UNCHANGED <<guildVars, sideVars, backups, roles, seqDoc, counterFile, channels,
                              creates, confirms, files, archive>>
          /\ closes[p].view = "finished" =>
               /\ closes'[p] = closes[p]
               /\ confirms_of(p)' = confirms_of(p)]_vars

\* The timer and a Cancel both happened on one prompt, no Confirm was accepted
\* for the channel, and the channel is there without a transcript document.
C8_Witness ==
  \E p \in DOMAIN closes :
    /\ closes[p].view = "finished" /\ closes[p].cancelled
    /\ confirms_on(closes[p].chan) = {}
    /\ channels[closes[p].chan].exists
    /\ records_of(closes[p].chan) = {}

\* C9: a Confirm handler reaches channel.delete() only after its own archival
\* attempt has ended, with the document stored, skipped or with an error; a
\* handler still inside its archival attempt has not called delete.
C9_DeleteAfterArchival ==
  \A h \in DOMAIN confirms :
    /\ (confirms[h].pc \in {"delete", "done"} \/ confirms[h].err = "delete")
         => confirms[h].archived \in {"saved", "skipped", "error"}
    /\ confirms[h].archived = "pending"
         => confirms[h].pc \in {"history", "log_send", "insert", "failed"}
    /\ confirms[h].archived = "saved" =>
         \E k \in records_of(confirms[h].chan) :
           archive[k].transcript_html = confirms[h].html

\* A handler that deleted its channel after its document was stored.
C9_Witness ==
  \E h \in DOMAIN confirms :
    /\ confirms[h].pc = "done" /\ confirms[h].archived = "saved"
    /\ ~channels[confirms[h].chan].exists

\* ---------------------------------------------------------------- liveness
\* One step of some Confirm handler: an awaited call returns or raises.
confirm_step ==
  \E h \in DOMAIN confirms :
    \/ history_return(h)
    \/ log_send_return(h)
    \/ insert_return(h)
    \/ notice_return(h)
    \/ delete_return(h)

\* The event loop resumes a handler whose awaited call has ended, and every
\* call to Discord, MongoDB and the file system ends, by returning or raising.
FairSpec == Spec /\ WF_vars(confirm_step)

\* The Confirm handlers there can be.
HandlerIds == 1 .. MaxEvents

\* The archival of handler h failed: rendering, the upload to the log channel,
\* reading the file back or the insert raised.
archival_error(h) == h \in DOMAIN confirms /\ confirms[h].archived = "error"

\* Handler h is over: its channel is deleted, or the close notice or the
\* delete call itself raised.
torn_down(h) ==
  /\ h \in DOMAIN confirms
  /\ \/ confirms[h].pc = "done" /\ ~channels[confirms[h].chan].exists
     \/ confirms[h].pc = "failed" /\ confirms[h].err \in {"notice", "delete"}

\* C10: a failed archival does not block the teardown: the handler goes on to
\* the close notice and the delete call, so its channel is eventually deleted
\* unless the notice or the delete itself raises.
C10_TeardownAfterArchivalFailure ==
  \A h \in HandlerIds : archival_error(h) ~> torn_down(h)

\* A handler whose archival failed and which then deleted its channel.
C10_Witness ==
  \E h \in DOMAIN confirms :
    /\ confirms[h].archived = "error" /\ confirms[h].pc = "done"
    /\ channels[confirms[h].chan].exists = FALSE
    /\ records_of(confirms[h].chan) = {}

\* --------------------------------------------------------------- numbering
\* The persisted counter of scope s: the seq of its document with MongoDB,
\* the content of its counter file without.
counter_value(s) == IF mongo THEN seqDoc[s] ELSE counterFile[s]

\* The requests of scope s whose call of the allocator returned.
allocated_in(s) == {i \in DOMAIN creates : allocated(i) /\ scope_of(creates[i].kind) = s}

\* C11: two Normal requests handled concurrently whose allocations returned
\* and whose channels were created own the channels ticket-n and ticket-(n+1),
\* and the counter, 0 at the start, stands at 2.
C11_TwoNormalTickets ==
  (/\ Len(creates) = 2
   /\ \A i \in {1, 2} : /\ creates[i].kind = "normal" /\ allocated(i)
                        /\ creates[i].chan # NoChannel)
    => \E n \in 1 .. MaxCreates :
         /\ {channels[creates[1].chan].name, channels[creates[2].chan].name}
              = {<<"ticket", n>>, <<"ticket", n + 1>>}
         /\ counter_value("ticket") = 2

\* Two Normal requests both have their channels, and the one that came second
\* was served first: it owns ticket-1, the first one ticket-2.
C11_Witness ==
  /\ Len(creates) = 2
  /\ creates[1].kind = "normal" /\ creates[2].kind = "normal"
  /\ creates[1].chan # NoChannel /\ creates[2].chan # NoChannel
  /\ channels[creates[2].chan].name = <<"ticket", 1>>
  /\ channels[creates[1].chan].name = <<"ticket", 2>>

\* C12: the N allocations of a scope that returned have returned exactly the
\* N integers following the counter's starting value 0, and the persisted
\* counter stands at N.
C12_ConsecutiveNumbers ==
  \A s \in Scopes :
    /\ {creates[i].num : i \in allocated_in(s)} = 1 .. Cardinality(allocated_in(s))
    /\ counter_value(s) = Cardinality(allocated_in(s))

\* Two allocations of one scope returned, each with MongoDB or each with the
\* counter file, and the requests belong to different kinds.
C12_Witness ==
  \E s \in Scopes :
    /\ Cardinality(allocated_in(s)) = 2
    /\ \E i, j \in allocated_in(s) : creates[i].kind # creates[j].kind

\* C13: the ticket numbers issued in a scope are never reused: no two tickets
\* of one kind were created under the same number.
C13_NeverReused ==
  \A i, j \in DOMAIN creates :
    (/\ i # j
     /\ creates[i].kind = creates[j].kind
     /\ creates[i].chan # NoChannel /\ creates[j].chan # NoChannel)
      => creates[i].num # creates[j].num

\* The number the next ticket of a kind would get.
next_number(kind) == get_next_ticket_number(scope_of(kind)).num

\* In this step the allocator returns the number of request i.
gets_number(i) ==
  /\ i \in DOMAIN creates'
  /\ creates'[i].num > 0 /\ ~creates'[i].allocFailed
  /\ i \in DOMAIN creates => creates[i].num = 0

\* C14 as stated: Normal, Gang and Support are numbered independently: an
\* allocation for one kind advances the next number of that kind and of no other.
C14_ThreeIndependentScopes ==
  [][\A i \in DOMAIN creates' :
       gets_number(i) =>
         \A k \in Kinds :
           next_number(k)' = next_number(k) + (IF k = creates'[i].kind THEN 1 ELSE 0)]_vars

\* C14, amended: Normal and Gang tickets draw from one counter and Support
\* tickets from another: an allocation for a Normal or a Gang ticket advances
\* the next number of both and leaves Support's, an allocation for a Support
\* ticket advances Support's alone; nothing else moves a counter.
C14_TwoIndependentScopes ==
  [][/\ \A i \in DOMAIN creates' :
          gets_number(i) =>
            \A k \in Kinds :
              next_number(k)' = next_number(k)
                + (IF (k = "support") = (creates'[i].kind = "support") THEN 1 ELSE 0)
     /\ (seqDoc' # seqDoc \/ counterFile' # counterFile)
          => \E i \in DOMAIN creates' : gets_number(i)]_vars

\* A Normal ticket got number 1 and a Gang ticket after it number 2.
C14_Witness ==
  \E i, j \in DOMAIN creates :
    /\ creates[i].kind = "normal" /\ allocated(i) /\ creates[i].num = 1
    /\ creates[j].kind = "gang" /\ allocated(j) /\ creates[j].num = 2

\* ------------------------------------------------------------------ /backup
\* The documents saved for tickets numbered n, of any kind.
saved_for(n) == {k \in DOMAIN archive : archive[k].channel_name[2] = n}

\* C15: /backup with a ticket number answers with the content saved for that
\* ticket, whatever its kind, and with not found when nothing was saved under
\* the number (a lookup that raised aside).
C15_BackupRoundTrip ==
  [][Len(backups') = Len(backups) + 1 =>
       LET b == backups'[Len(backups')] IN
         b.reply # "error" =>
           /\ \A k \in saved_for(b.number) :
                b.reply = "found" /\ b.html = archive[k].transcript_html
           /\ saved_for(b.number) = {} => b.reply \in {"not_found", "not_configured"}]_vars

\* ---------------------------------------------------------------- archival
\* The save called by handler h stored nothing: MongoDB is not configured, or
\* insert_one raised.
save_lost(h) == confirms[h].html # <<>> /\ confirms[h].archived \in {"skipped", "error"}

\* C16: a save that stored nothing is reported to the Confirm handler that
\* called it: the handler does not go on as after a successful save, so the
\* transcript file it would remove next is still on disk.
C16_SaveReportsFailure ==
  \A h \in DOMAIN confirms : save_lost(h) => confirms[h].path \in DOMAIN files

\* ------------------------------------------------------------------ grants
\* The gang-prefixed roles member u holds.
gang_roles_of(u) == {r \in roles[u] : startswith(role_name(r), GANG_ROLE_PREFIX)}

\* The identities a permission map grants read and send.
read_send_in(o) == {t \in DOMAIN o : o[t] = "read_send"}

\* In this step handler i builds its permission map and calls create_text_channel.
builds_map(i) ==
  /\ i \in DOMAIN creates'
  /\ creates'[i].pc = "create"
  /\ i \in DOMAIN creates => creates[i].pc # "create"

\* C17: the permission map of a new ticket channel denies read to the default
\* role and grants read and send to exactly the requester, the bot, the staff
\* role when it exists and, for a Gang ticket, the members of a gang role of
\* the requester; the channel is created with that map.
C17_GrantsAtCreation ==
  [][/\ \A i \in DOMAIN creates' :
          builds_map(i) =>
            LET r == creates'[i]
                base == {<<"member", r.user>>, <<"me">>}
                          \cup (IF staffRole THEN {<<"role", STAFF_ROLE_ID>>} ELSE {})
            IN /\ DOMAIN r.overwrites = read_send_in(r.overwrites) \cup {<<"default_role">>}
               /\ r.overwrites[<<"default_role">>] = "deny_read"
               /\ IF r.kind = "gang" /\ gang_roles_of(r.user) # {}
                  THEN \E g \in gang_roles_of(r.user) :
                         read_send_in(r.overwrites)
                           = base \cup {<<"member", m>> : m \in members(g)}
                  ELSE read_send_in(r.overwrites) = base
     /\ Len(channels') = Len(channels) + 1 =>
          \E i \in DOMAIN creates :
            /\ creates'[i].chan = Len(channels') /\ creates[i].chan = NoChannel
            /\ channels'[Len(channels')].overwrites = creates[i].overwrites]_vars

\* A Gang ticket channel and a Support ticket channel exist in a guild with
\* the staff role.
C17_Witness ==
  /\ staffRole
  /\ \E c \in DOMAIN channels : channels[c].kind = "gang"
  /\ \E c \in DOMAIN channels : channels[c].kind = "support"

\* C18: for a Gang ticket of a requester holding gang roles, every member of
\* the first such role in enumeration order is granted read and send, and a
\* member holding only later gang roles of the requester gets no grant.
C18_FirstGangRoleOnly ==
  [][\A i \in DOMAIN creates' :
       (builds_map(i) /\ creates'[i].kind = "gang"
          /\ gang_roles_of(creates'[i].user) # {})
         => LET r == creates'[i]
                first == CHOOSE g \in gang_roles_of(r.user) :
                           \A g2 \in gang_roles_of(r.user) : g <= g2
            IN /\ \A m \in members(first) :
                    <<"member", m>> \in read_send_in(r.overwrites)
               /\ \A m \in Users \ (members(first) \cup {r.user}) :
                    <<"member", m>> \notin DOMAIN r.overwrites]_vars

\* A Gang ticket channel of member 1, who holds two gang roles: member 3 of
\* the first role is granted, member 4 of the second role is not.
C18_Witness ==
  \E c \in DOMAIN channels :
    /\ channels[c].kind = "gang" /\ creator_of(c) = 1
    /\ <<"member", 3>> \in read_send_in(channels[c].overwrites)
    /\ <<"member", 4>> \notin DOMAIN channels[c].overwrites

\* ------------------------------------------------------- creation failures
\* C19: in a guild whose ticket category is missing, a creation request ends
\* with the failure reply and nothing else: no number is allocated, the
\* counters stay where they were and no channel is created.
C19_NoCategoryNoEffect ==
  ~category =>
    /\ channels = <<>>
    /\ \A s \in Scopes : seqDoc[s] = 0 /\ counterFile[s] = 0
    /\ \A i \in DOMAIN creates :
         /\ creates[i].num = 0 /\ creates[i].chan = NoChannel
         /\ creates[i].pc \in {"modal", "done", "failed", "killed"}
         /\ creates[i].pc = "done" =>
              \/ creates[i].replies = <<"no_category">>
              \/ creates[i].kind = "gang" /\ creates[i].replies = <<"need_gang_role">>

\* Without the category, a Support request and a form submission both ended
\* with the failure reply.
C19_Witness ==
  /\ ~category
  /\ \E i \in DOMAIN creates :
       creates[i].kind = "support" /\ creates[i].replies = <<"no_category">>
  /\ \E i \in DOMAIN creates :
       creates[i].kind # "support" /\ creates[i].replies = <<"no_category">>

\* C20: a creation that failed after its channel was created leaves no
\* partial channel behind: once the handler has answered with the failure
\* reply, the channel it created has been deleted, unless a Confirm handler
\* has taken the channel over.
C20_PartialTicketDeleted ==
  \A i \in DOMAIN creates :
    (/\ creates[i].chan # NoChannel
     /\ creates[i].pc = "done"
     /\ creates[i].replies = <<"failed">>
     /\ confirms_on(creates[i].chan) = {})
      => ~channels[creates[i].chan].exists

\* ------------------------------------------------------------ close path
\* C23: a ticket channel is deleted only along the close path: when a channel
\* is gone, a Confirm handler on that channel has run to its end, and the
\* prompt it was pressed on was opened by a close request on that channel
\* that passed the creator-or-staff check.
C23_DeletedOnlyByConfirmedClose ==
  \A c \in DOMAIN channels :
    ~channels[c].exists =>
      \E h \in confirms_on(c) :
        /\ confirms[h].pc = "done"
        /\ closes[confirms[h].prompt].chan = c
        /\ closes[confirms[h].prompt].reply = "confirm_prompt"

\* A ticket channel was deleted by the confirmed close of a staff member who
\* is not its creator, after a Cancel on the same prompt.
C23_Witness ==
  \E c \in DOMAIN channels :
    /\ ~channels[c].exists
    /\ \E h \in confirms_on(c) :
         /\ confirms[h].pc = "done" /\ ~by_creator(h)
         /\ closes[confirms[h].prompt].cancelled

\* C24: after Cancel the ticket is open again and closing it needs a new close
\* request: a Confirm pressed on a prompt that was already cancelled starts no
\* teardown of the ticket.
C24_NoConfirmAfterCancel ==
  [][\A p \in DOMAIN closes :
       closes[p].cancelled => confirms_of(p)' = confirms_of(p)]_vars

\* C25: a pending close is completed only by a Confirm of the actor whose
\* close request opened the prompt, and the closed-by name of every archive
\* record is that of the actor who confirmed the close of its channel.
C25_ConfirmedByRequester ==
  /\ \A h \in DOMAIN confirms :
       /\ closes[confirms[h].prompt].reply = "confirm_prompt"
       /\ confirms[h].closed_by = closes[confirms[h].prompt].actor
  /\ \A k \in DOMAIN archive :
       \E h \in saved_on(archive[k].channel_id) :
         /\ archive[k].closed_by_name = confirms[h].closed_by
         /\ archive[k].closed_by_name = closes[confirms[h].prompt].actor

\* A staff member who is not the creator requested and confirmed a close;
\* the stored record names that staff member.
C25_Witness ==
  \E k \in DOMAIN archive :
    /\ archive[k].closed_by_name # creator_of(archive[k].channel_id)
    /\ ~channels[archive[k].channel_id].exists

\* ------------------------------------------------------------ channel names
\* C26: whatever the sequence of creations, also when the allocator fails, no
\* two ticket channels of one variant carry the same name.
C26_DistinctChannelNames ==
  \A c, d \in DOMAIN channels :
    (c # d /\ channels[c].kind = channels[d].kind)
      => channels[c].name # channels[d].name

\* C27: an allocated number is never rolled back: whatever became of the
\* request that got it, also when the channel creation or a later step
\* failed, the counter has not gone below that number and the next
\* allocation returns a strictly larger one.
C27_NumberNeverRolledBack ==
  \A i \in DOMAIN creates :
    allocated(i) =>
      /\ counter_value(scope_of(creates[i].kind)) >= creates[i].num
      /\ next_number(creates[i].kind) > creates[i].num

\* A request got its number and failed at create_text_channel; a later
\* request of the same scope got a larger number.
C27_Witness ==
  \E i, j \in DOMAIN creates :
    /\ allocated(i) /\ allocated(j)
    /\ creates[i].chan = NoChannel /\ creates[i].replies = <<"failed">>
    /\ scope_of(creates[i].kind) = scope_of(creates[j].kind)
    /\ creates[j].num > creates[i].num
    /\ creates[j].pc = "done" /\ creates[j].replies = <<"created">>

\* ------------------------------------------------------------------ archive
\* C28: the archive is insert-only: no step of the bot (a save, /backup, a
\* repeated Confirm, a creation, a restart) changes or removes a stored
\* record; a step leaves the archive alone or adds records behind the
\* stored ones.
C28_ArchiveInsertOnly ==
  [][/\ Len(archive') >= Len(archive)
     /\ \A k \in DOMAIN archive : archive'[k] = archive[k]]_vars

\* Two records are stored for one channel, after a repeated Confirm, and
\* /backup has found a record of that channel.
C28_Witness ==
  /\ \E j, k \in DOMAIN archive :
       j # k /\ archive[j].channel_id = archive[k].channel_id
  /\ \E b \in DOMAIN backups : backups[b].reply = "found"

\* ----------------------------------------------------------- late Confirm
\* A Confirm handler that finds its channel deleted: at its channel.history
\* call, or at the close notice after that call has failed.
late(h) ==
  /\ ~channels[confirms[h].chan].exists
  /\ \/ confirms[h].pc = "history"
     \/ confirms[h].pc = "notice" /\ confirms[h].path = <<>>

\* C29: the teardown is idempotent: a Confirm handled when its channel is
\* already deleted is a no-op that ends in an error of its own handler only.
\* Each of its steps writes no archive record and no file, creates and
\* deletes no channel, changes no counter and no other handler, and leaves
\* the other ticket as it was; it ends at the close notice.
C29_LateConfirmIsNoOp ==
  [][\A h \in DOMAIN confirms :
       (late(h) /\ confirms'[h] # confirms[h]) =>
         /\ archive' = archive /\ files' = files
         /\ channels' = channels /\ creates' = creates /\ closes' = closes
         /\ seqDoc' = seqDoc /\ counterFile' = counterFile
         /\ \A g \in DOMAIN confirms : g # h => confirms'[g] = confirms[g]
         /\ confirms'[h].archived = "error"
         /\ \/ confirms'[h].pc = "notice"
            \/ confirms'[h].pc = "failed" /\ confirms'[h].err = "notice"]_vars

\* The first ticket was closed and its channel deleted; a second Confirm on
\* the same prompt came after the deletion and its handler ended at the close
\* notice; one record is stored and the other ticket is open.
C29_Witness ==
  /\ \E g, h \in DOMAIN confirms :
       /\ g < h /\ confirms[g].chan = confirms[h].chan
       /\ ~channels[confirms[g].chan].exists
       /\ confirms[g].pc = "done" /\ confirms[g].archived = "saved"
       /\ confirms[h].pc = "failed" /\ confirms[h].err = "notice"
       /\ confirms[h].path = <<>> /\ confirms[h].archived = "error"
  /\ Len(archive) = 1
  /\ \E c \in DOMAIN channels : channels[c].exists /\ closes_on(c) = {}

values_of(doc) ==
  {doc.head[k].text : k \in {x \in DOMAIN doc.head : doc.head[x].kind = "value"}}
  \cup UNION { {doc.entries[e][k].text :
                  k \in {x \in DOMAIN doc.entries[e] : doc.entries[e][x].kind = "value"}} :
               e \in DOMAIN doc.entries }

\* The documents rendered so far.
documents == {files[rendered[k]] : k \in DOMAIN rendered}

\* C21: every text under the users' control that is embedded in a rendered
\* transcript (channel and guild name, author names, message content, embed
\* titles, descriptions and fields, attachment file names and urls) is
\* escaped: no interpolated value holds a raw '<', '>' or '&'.
C21_UserTextEscaped ==
  \A doc \in documents :
    \A text \in values_of(doc) :
      \A k \in DOMAIN text : text[k] \notin {"<", ">", "&"}

\* The time of a message entry: the fourth piece of the entry.
time_of(entry) == entry[4].at

literals_in(entry, s) ==
  {k \in DOMAIN entry : entry[k].kind = "literal" /\ entry[k].text = s}

\* The attachments of a message whose file name ends in an image suffix,
\* whatever the case of its letters.
images_of(msg) ==
  {a \in DOMAIN msg.attachments :
     \E suffix \in IMAGE_SUFFIXES : endswith(lower(msg.attachments[a].filename), suffix)}

\* C31: in both variants a rendered transcript has one entry per message of
\* the history, and the entry of a message shows each of its attachments, as
\* an inline image when the file name ends in an image suffix and as a link
\* otherwise, and each of its embeds as a sub-block.
C31_EntryShowsAttachmentsAndEmbeds ==
  \A doc \in documents :
    /\ Len(doc.entries) = Cardinality(room.messages)
    /\ \A k \in DOMAIN doc.entries :
         LET msg == history(room.messages)[k]
             entry == doc.entries[k]
         IN /\ Cardinality(literals_in(entry, "<img src=\"")) = Cardinality(images_of(msg))
            /\ Cardinality(literals_in(entry, "<a href=\""))
                 = Len(msg.attachments) - Cardinality(images_of(msg))
            /\ Cardinality(literals_in(entry, "<div class=\"embed\">")) = Len(msg.embeds)

\* ------------------------------------------------------ messages and access
\* The number of messages a stored transcript holds: those of the history at
\* the time of its rendering.
messages_in(doc) == doc.transcript_html[2]

\* C32: every message a member posted in a ticket channel before the channel
\* was deleted is in the transcript archived for the ticket, also a message
\* posted after Confirm was pressed: the stored transcripts of a deleted
\* channel reach up to the last message a member sent in it.
C32_ArchiveHoldsEveryMessage ==
  \A c \in DOMAIN channels :
    ~channels[c].exists =>
      \A k \in records_of(c) : messages_in(archive[k]) >= channels[c].posted

\* C33: once a ticket channel exists, the identities granted access to it
\* change only through /add. A step that changes the overwrites of a channel
\* is the return of the set_permissions call of an /add handler in that
\* channel, which is named as a ticket, and all it does is grant read and
\* send to the named member; an /add handler gets to that call only for an
\* invoker who holds the staff role; a rejected /add changes no channel.
C33_AccessChangesOnlyByAdd ==
  [][/\ \A c \in DOMAIN channels :
          channels'[c].overwrites # channels[c].overwrites =>
            \E a \in DOMAIN adds :
              /\ adds[a].chan = c /\ named_as_ticket(channels[c].name)
              /\ adds[a].pc = "set_permissions" /\ adds'[a].reply = "added"
              /\ DOMAIN channels'[c].overwrites
                   = DOMAIN channels[c].overwrites \cup {<<"member", adds[a].member>>}
              /\ channels'[c].overwrites[<<"member", adds[a].member>>] = "read_send"
              /\ \A k \in DOMAIN channels[c].overwrites :
                   k # <<"member", adds[a].member>>
                     => channels'[c].overwrites[k] = channels[c].overwrites[k]
     /\ Len(adds') > Len(adds) =>
          LET a == adds'[Len(adds')] IN
          /\ channels' = channels
          /\ a.pc = "set_permissions" =>
               is_staff(a.user) /\ named_as_ticket(channels[a.chan].name)
          /\ a.pc = "done" => a.reply \in {"not_a_ticket", "no_permission"}]_vars

\* A staff member has added member 3 to the Normal ticket; an /add of a member
\* without the staff role and an /add in the Support ticket were rejected.
C33_Witness ==
  /\ <<"member", 3>> \in DOMAIN channels[1].overwrites
  /\ channels[1].overwrites[<<"member", 3>>] = "read_send"
  /\ \E a \in DOMAIN adds : adds[a].reply = "no_permission"
  /\ \E a \in DOMAIN adds : adds[a].reply = "not_a_ticket"

\* ------------------------------------------------------ recording sessions
\* C34: a guild has at most one recording session, and /record never replaces
\* one: a session that start_record has stored is the session of its guild
\* until a /stoprecord takes it, so every session announced as started is
\* still active or was taken by exactly one /stoprecord.
C34_SessionNeverReplaced ==
  \A a \in DOMAIN starts :
    starts[a].id # 0 =>
      LET takers == {b \in DOMAIN stops : stops[b].session = starts[a].id} IN
      \/ active_sessions[starts[a].guild].id = starts[a].id /\ takers = {}
      \/ active_sessions[starts[a].guild].id # starts[a].id /\ Cardinality(takers) = 1

\* ------------------------------------------------------ name-change requests
\* The handlers that have marked request message r, and those that have set
\* the requester's nickname for it.
marked(r) == {v \in DOMAIN reviews : reviews[v].req = r /\ reviews[v].edited}

renamed_for(r) == {v \in DOMAIN reviews : reviews[v].req = r /\ reviews[v].renamed}

\* C35: a name-change request is resolved at most once: however Approve and
\* Reject interactions on its message interleave, the message is marked once,
\* approved or rejected and never both, and the requester's nickname is set
\* at most once for the request.
C35_ResolvedAtMostOnce ==
  \A r \in DOMAIN requests :
    /\ Cardinality(marked(r)) <= 1
    /\ Cardinality(renamed_for(r)) <= 1
    /\ \A v \in renamed_for(r), w \in marked(r) : reviews[w].kind = "approve"

\* C36: a name-change request takes effect through staff only: a handler
\* that has marked a request message or set a nickname was started by an
\* actor who holds the staff role, and the nickname it set is the New Name of
\* its request, set for the requester of that request.
C36_OnlyStaffResolves ==
  \A v \in DOMAIN reviews :
    /\ (reviews[v].edited \/ reviews[v].renamed) => reviews[v].staff
    /\ reviews[v].renamed =>
         /\ reviews[v].new_name = requests[reviews[v].req].new_name
         /\ reviews[v].requester_id = requests[reviews[v].req].requester
         /\ nicks[reviews[v].requester_id].edits >= 1

====
